---- MODULE Spec2Model ----
(***************************************************************************)
(* Post-generation workflow (src/agent), its API handlers (src/api) and    *)
(* the LLM router (src/llm).                                               *)
(*                                                                         *)
(* Optional values (Python `X | None`) are sequences: << >> is None and    *)
(* <<x>> is the value x.  A text is a sequence of pieces; the string it    *)
(* stands for is the concatenation of the pieces' characters.              *)
(***************************************************************************)
EXTENDS Integers, Sequences, FiniteSets, TLC

VARIABLES
    \* --- the post row of the database and the workflow thread of the post
    post_status,   \* Post.status ("none" before the row exists)
    values,        \* checkpointed state of the thread (StateSnapshot.values), empty if none
    tasks,         \* nodes of the superstep being run / the checkpoint's next nodes
    writes,        \* node -> update returned by the tasks already run in this superstep
    phase,         \* "idle" | "running" | "interrupted" | "done" | "failed"
    caller,        \* the function that made the invocation in progress
    bg,            \* the background task queued by a route handler
    trace,         \* supersteps completed by the invocation in progress (sets of nodes)
    routed,        \* last result of should_regenerate in this invocation, "none" before
    entered_from,  \* phase of the thread when the invocation in progress was made
    \* --- a node function or the conditional edge called on its own
    called,        \* name of the function called last, "none" before
    returned,      \* its outcome
    \* --- one LLMRouter.generate() or generate_structured() call
    model_chain,   \* self.model_chain
    mode,          \* "text" for generate(), "structured" for generate_structured(), "none" before
    request,       \* the temperature and max_tokens arguments of the call, << >> when omitted
    rphase,        \* "idle" | "calling" | "returned" | "raised"
    model,         \* index in model_chain of the model being tried
    attempt,       \* the `attempt` loop variable of _call_model_with_retry
    calls,         \* backend calls made so far: [model, index, attempt, ok, slept, client]
    sleeps,        \* time.sleep() durations so far
    response       \* << >> or <<index of the model whose response was returned>>

wfvars ==
    <<post_status, values, tasks, writes, phase, caller, bg, trace, routed, entered_from>>
fnvars == <<called, returned>>
rvars == <<model_chain, mode, request, rphase, model, attempt, calls, sleeps, response>>
vars == <<wfvars, fnvars, rvars>>

(***************************************************************************)
(* Bounds                                                                  *)
(***************************************************************************)
MaxContent == 2     \* distinct LLM responses per prompt
MaxPieces == 2      \* pieces in a feedback text
MaxChain == 3       \* models in the fallback chain

Contents == 1..MaxContent

None == << >>
Some(x) == <<x>>
Opt(S) == {None} \cup {Some(x) : x \in S}

(***************************************************************************)
(* Texts: str.lower() and the `in` substring test                          *)
(***************************************************************************)
Pieces == {"LinkedIn", "instagram", "WORDPRESS", "linked", "in", "better"}

Chars(p) ==
    CASE p = "LinkedIn" -> <<"L", "i", "n", "k", "e", "d", "I", "n">>
      [] p = "instagram" -> <<"i", "n", "s", "t", "a", "g", "r", "a", "m">>
      [] p = "WORDPRESS" -> <<"W", "O", "R", "D", "P", "R", "E", "S", "S">>
      [] p = "linked" -> <<"l", "i", "n", "k", "e", "d">>
      [] p = "in" -> <<"i", "n">>
      [] p = "better" -> <<"b", "e", "t", "t", "e", "r">>
      [] p = "linkedin" -> <<"l", "i", "n", "k", "e", "d", "i", "n">>
      [] p = "wordpress" -> <<"w", "o", "r", "d", "p", "r", "e", "s", "s">>

RECURSIVE Spell(_)
Spell(text) ==
    IF text = << >> THEN << >> ELSE Chars(Head(text)) \o Spell(Tail(text))

LowerChar(c) ==
    CASE c = "L" -> "l" [] c = "I" -> "i" [] c = "W" -> "w" [] c = "O" -> "o"
      [] c = "R" -> "r" [] c = "D" -> "d" [] c = "P" -> "p" [] c = "E" -> "e"
      [] c = "S" -> "s" [] OTHER -> c

Lower(str) == [i \in 1..Len(str) |-> LowerChar(str[i])]

Contains(needle, str) ==
    \E i \in 1..(Len(str) - Len(needle) + 1) :
        SubSeq(str, i, i + Len(needle) - 1) = needle

Texts == UNION {[1..n -> Pieces] : n \in 0..MaxPieces}

(***************************************************************************)
(* PostGenerationState                                                     *)
(***************************************************************************)
Statuses ==
    {"pending_generation", "pending_review", "approved", "rejected",
     "regenerating", "error", "archived"}

PostGenerationState(topic, post_id) ==
    [topic |-> topic, post_id |-> post_id,
     analysis |-> None, themes |-> << >>, target_audience |-> None,
     visual_concepts |-> << >>,
     image |-> None,
     linkedin_post |-> None, instagram_post |-> None, wordpress_post |-> None,
     approval_status |-> "pending_generation", feedback |-> None,
     regenerate_linkedin |-> FALSE, regenerate_instagram |-> FALSE,
     regenerate_wordpress |-> FALSE,
     finalized |-> FALSE, error |-> None, retry_count |-> 0]

EmptyUpdate == [f \in {} |-> TRUE]

\* merge of a node's partial update into the state: one LastValue channel per field
Merge(state, update) ==
    [f \in DOMAIN state |-> IF f \in DOMAIN update THEN update[f] ELSE state[f]]

Return(update) == [ok |-> TRUE, update |-> update]
Raise == [ok |-> FALSE, update |-> EmptyUpdate]

(***************************************************************************)
(* Node functions.  A node that calls the LLM is a function of the state   *)
(* and of what llm_router.generate() gave it; the other nodes give the set *)
(* of outcomes of one call.                                                *)
(***************************************************************************)
\* what llm_router.generate(prompt, system_prompt) gives the node: the
\* exception raised when every model of the chain has failed, a text that
\* json.loads or the field accesses reject, or a JSON text
LLMResults ==
    {[kind |-> "raised", content |-> 1], [kind |-> "text", content |-> 1]}
        \cup {[kind |-> "json", content |-> c] : c \in Contents}

analyze_topic(state, result) ==
    IF result.kind # "json"
    THEN Raise
    ELSE Return([analysis |-> Some(result.content), themes |-> <<result.content>>,
                 target_audience |-> Some(result.content),
                 visual_concepts |-> <<result.content>>])

generate_image(state) == {Return(EmptyUpdate)}

\* mutant: the node catches the router's exception and returns an empty post
generate_linkedin_swallows(state, result) ==
    IF result.kind = "raised"
    THEN Return([linkedin_post |-> None])
    ELSE IF result.kind # "json"
    THEN Raise
    ELSE Return([linkedin_post |-> Some([text |-> result.content, image |-> state.image])])

generate_linkedin(state, result) ==
    IF result.kind # "json"
    THEN Raise
    ELSE Return([linkedin_post |-> Some([text |-> result.content, image |-> state.image])])

\* InstagramPost(image=None) does not validate
generate_instagram(state, result) ==
    IF result.kind # "json" \/ state.image = None
    THEN Raise
    ELSE Return([instagram_post |-> Some([text |-> result.content, image |-> state.image])])

\* mutant: the WordPress generator also resets the LinkedIn post
generate_wordpress_overwrites(state, result) ==
    IF result.kind # "json"
    THEN Raise
    ELSE Return([wordpress_post |-> Some([text |-> result.content, image |-> state.image]),
                 linkedin_post |-> None])

generate_wordpress(state, result) ==
    IF result.kind # "json"
    THEN Raise
    ELSE Return([wordpress_post |-> Some([text |-> result.content, image |-> state.image])])

wait_for_approval(state) == {Return([approval_status |-> "pending_review"])}

\* mutant: the feedback is not lower-cased before the substring tests
feedback_lower_case_sensitive(state) ==
    Spell(IF state.feedback = None THEN << >> ELSE state.feedback[1])

feedback_lower(state) ==
    Lower(Spell(IF state.feedback = None THEN << >> ELSE state.feedback[1]))

regenerate_flags(state) ==
    [regenerate_linkedin |-> Contains(Chars("linkedin"), feedback_lower(state)),
     regenerate_instagram |-> Contains(Chars("instagram"), feedback_lower(state)),
     regenerate_wordpress |-> Contains(Chars("wordpress"), feedback_lower(state))]

\* mutant: no fallback to all platforms when none is named
apply_feedback_no_fallback(state) ==
    LET flags == regenerate_flags(state)
    IN  {Return([regenerate_linkedin |-> flags.regenerate_linkedin,
                 regenerate_instagram |-> flags.regenerate_instagram,
                 regenerate_wordpress |-> flags.regenerate_wordpress,
                 approval_status |-> "regenerating"])}

\* mutant: the update also clears the image, so that it is generated again
apply_feedback_clears_image(state) ==
    LET flags == regenerate_flags(state)
        any == \E k \in DOMAIN flags : flags[k]
    IN  {Return([regenerate_linkedin |-> IF any THEN flags.regenerate_linkedin ELSE TRUE,
                 regenerate_instagram |-> IF any THEN flags.regenerate_instagram ELSE TRUE,
                 regenerate_wordpress |-> IF any THEN flags.regenerate_wordpress ELSE TRUE,
                 image |-> None,
                 approval_status |-> "regenerating"])}

apply_feedback(state) ==
    LET flags == regenerate_flags(state)
        any == \E k \in DOMAIN flags : flags[k]
    IN  {Return([regenerate_linkedin |-> IF any THEN flags.regenerate_linkedin ELSE TRUE,
                 regenerate_instagram |-> IF any THEN flags.regenerate_instagram ELSE TRUE,
                 regenerate_wordpress |-> IF any THEN flags.regenerate_wordpress ELSE TRUE,
                 approval_status |-> "regenerating"])}

\* mutant: finalize marks the state finalized without approving it
finalize_flag_only(state) == {Return([finalized |-> TRUE])}

finalize(state) == {Return([approval_status |-> "approved", finalized |-> TRUE])}

\* mutant: handle_error also resets the error message
handle_error_clears_error(state) ==
    {Return([approval_status |-> "error", finalized |-> FALSE, error |-> None])}

handle_error(state) == {Return([approval_status |-> "error", finalized |-> FALSE])}

\* mutant: a state that is being regenerated is routed to regeneration again
should_regenerate_regenerating(state) ==
    IF state.approval_status = "approved" THEN "finalize"
    ELSE IF state.approval_status \in {"rejected", "regenerating"} THEN "regenerate"
    ELSE "wait"

should_regenerate(state) ==
    IF state.approval_status = "approved" THEN "finalize"
    ELSE IF state.approval_status = "rejected" THEN "regenerate"
    ELSE "wait"

(***************************************************************************)
(* The compiled graph of create_workflow()                                 *)
(***************************************************************************)
Nodes ==
    {"analyze_topic", "generate_image", "generate_linkedin", "generate_instagram",
     "generate_wordpress", "wait_for_approval", "apply_feedback", "finalize"}

Generators == {"generate_linkedin", "generate_instagram", "generate_wordpress"}

EntryPoint == "analyze_topic"

\* mutant: finalize leads back to the review instead of END
Edges_finalize_not_last ==
    {<<"analyze_topic", "generate_image">>,
     <<"generate_image", "generate_linkedin">>,
     <<"generate_image", "generate_instagram">>,
     <<"generate_image", "generate_wordpress">>,
     <<"generate_linkedin", "wait_for_approval">>,
     <<"generate_instagram", "wait_for_approval">>,
     <<"generate_wordpress", "wait_for_approval">>,
     <<"apply_feedback", "generate_linkedin">>,
     <<"apply_feedback", "generate_instagram">>,
     <<"apply_feedback", "generate_wordpress">>,
     <<"finalize", "wait_for_approval">>}

Edges ==
    {<<"analyze_topic", "generate_image">>,
     <<"generate_image", "generate_linkedin">>,
     <<"generate_image", "generate_instagram">>,
     <<"generate_image", "generate_wordpress">>,
     <<"generate_linkedin", "wait_for_approval">>,
     <<"generate_instagram", "wait_for_approval">>,
     <<"generate_wordpress", "wait_for_approval">>,
     <<"apply_feedback", "generate_linkedin">>,
     <<"apply_feedback", "generate_instagram">>,
     <<"apply_feedback", "generate_wordpress">>,
     <<"finalize", "END">>}

ConditionalEdges ==
    [regenerate |-> "apply_feedback", finalize |-> "finalize",
     wait |-> "wait_for_approval"]

\* mutant: the graph is compiled without interrupt_before
InterruptBefore_none == {}

InterruptBefore == {"wait_for_approval"}

\* the nodes that call llm_router.generate()
LLMNodes == {"analyze_topic", "generate_linkedin", "generate_instagram", "generate_wordpress"}

NodeCall(n, state, result) ==
    CASE n = "analyze_topic" -> analyze_topic(state, result)
      [] n = "generate_linkedin" -> generate_linkedin(state, result)
      [] n = "generate_instagram" -> generate_instagram(state, result)
      [] n = "generate_wordpress" -> generate_wordpress(state, result)

NodeFn(n, state) ==
    CASE n \in LLMNodes -> {NodeCall(n, state, result) : result \in LLMResults}
      [] n = "generate_image" -> generate_image(state)
      [] n = "wait_for_approval" -> wait_for_approval(state)
      [] n = "apply_feedback" -> apply_feedback(state)
      [] n = "finalize" -> finalize(state)
      [] n = "handle_error" -> handle_error(state)

\* nodes triggered by node n once it has run; state is the state n's conditional
\* edge reads, i.e. the state with n's own update applied
Successors(n, state) ==
    ({e[2] : e \in {d \in Edges : d[1] = n}}
        \cup (IF n = "wait_for_approval"
              THEN {ConditionalEdges[should_regenerate(state)]}
              ELSE {}))
    \ {"END"}

\* the updates of one superstep applied to the state; the nodes of a superstep
\* write different fields, so the order of application does not matter
RECURSIVE ApplyWrites(_, _)
ApplyWrites(state, ws) ==
    IF DOMAIN ws = {} THEN state
    ELSE LET n == CHOOSE m \in DOMAIN ws : TRUE
         IN  ApplyWrites(Merge(state, ws[n]),
                         [m \in DOMAIN ws \ {n} |-> ws[m]])

(***************************************************************************)
(* Invocation of the compiled graph on the post's thread                   *)
(***************************************************************************)
Topic == "topic"
PostId == 1

\* texts a reviewer sends with a rejection
ReviewTexts == {<<"better">>, <<"LinkedIn">>, <<"instagram", "WORDPRESS">>}

\* images a caller of the graph can put in its input
Images == {"img"}

\* inputs of a direct invocation of the graph: a fresh state, with or without image
InvokeInputs ==
    {[PostGenerationState(Topic, PostId) EXCEPT !.image = i] : i \in Opt(Images)}

NoBg == [task |-> "none", feedback |-> << >>]

\* workflow.ainvoke(input, config) with an input: the input is written to the
\* thread's state and the run starts at the entry point, whatever the
\* checkpoint's next nodes were (only an input of None continues from them)
\* Invocations of one thread are made one at a time (single writer per run).
ainvoke(input, who) ==
    /\ phase # "running"
    /\ values' = [f \in DOMAIN values \cup DOMAIN input |->
                     IF f \in DOMAIN input THEN input[f] ELSE values[f]]
    /\ tasks' = {EntryPoint}
    /\ writes' = EmptyUpdate
    /\ phase' = "running"
    /\ caller' = who
    /\ trace' = << >>
    /\ routed' = "none"
    /\ entered_from' = phase

\* a direct invocation, as in tests/agent/test_graph.py
invoke ==
    /\ \E input \in InvokeInputs : ainvoke(input, "invoke")
    /\ UNCHANGED <<post_status, bg, fnvars, rvars>>

\* mutant: the tasks of the superstep go on after one of them has raised
ExecuteTask_after_failure(n) ==
    /\ phase \in {"running", "failed"}
    /\ n \in tasks \ DOMAIN writes
    /\ \E out \in NodeFn(n, values) :
          IF out.ok
          THEN /\ writes' = [m \in DOMAIN writes \cup {n} |->
                                IF m = n THEN out.update ELSE writes[m]]
               /\ UNCHANGED <<phase, post_status>>
          ELSE /\ writes' = EmptyUpdate
               /\ phase' = "failed"
               /\ post_status' = IF caller = "invoke" THEN post_status ELSE "error"
    /\ UNCHANGED <<values, tasks, caller, bg, trace, routed, entered_from, fnvars, rvars>>

\* one task of the current superstep runs its node on the state the superstep
\* started with; an exception of the node ends the invocation, and the
\* except clause of the route's background task marks the post
ExecuteTask(n) ==
    /\ phase = "running"
    /\ n \in tasks \ DOMAIN writes
    /\ \E out \in NodeFn(n, values) :
          IF out.ok
          THEN /\ writes' = [m \in DOMAIN writes \cup {n} |->
                                IF m = n THEN out.update ELSE writes[m]]
               /\ UNCHANGED <<phase, post_status>>
          ELSE /\ writes' = EmptyUpdate
               /\ phase' = "failed"
               /\ post_status' = IF caller = "invoke" THEN post_status ELSE "error"
    /\ UNCHANGED <<values, tasks, caller, bg, trace, routed, entered_from, fnvars, rvars>>

\* mutant: no barrier, a superstep ends as soon as some of its tasks have run
\* and the others are carried over to the next one
EndSuperstep_no_barrier ==
    /\ phase = "running"
    /\ DOMAIN writes # {}
    /\ LET next == UNION {Successors(n, Merge(values, writes[n])) : n \in DOMAIN writes}
                       \cup (tasks \ DOMAIN writes)
       IN  /\ values' = ApplyWrites(values, writes)
           /\ tasks' = next
           /\ phase' = IF next = {} THEN "done"
                       ELSE IF next \cap InterruptBefore # {} THEN "interrupted"
                       ELSE "running"
    /\ writes' = EmptyUpdate
    /\ trace' = Append(trace, DOMAIN writes)
    /\ routed' = IF "wait_for_approval" \in DOMAIN writes
                 THEN should_regenerate(Merge(values, writes["wait_for_approval"]))
                 ELSE routed
    /\ UNCHANGED <<post_status, caller, bg, entered_from, fnvars, rvars>>

\* all tasks of the superstep have run: their updates are applied, the
\* checkpoint is saved, and the next superstep is the set of triggered nodes;
\* the invocation stops before a superstep that contains an interrupt node
EndSuperstep ==
    /\ phase = "running"
    /\ DOMAIN writes = tasks
    /\ LET next == UNION {Successors(n, Merge(values, writes[n])) : n \in tasks}
       IN  /\ values' = ApplyWrites(values, writes)
           /\ tasks' = next
           /\ phase' = IF next = {} THEN "done"
                       ELSE IF next \cap InterruptBefore # {} THEN "interrupted"
                       ELSE "running"
    /\ writes' = EmptyUpdate
    /\ trace' = Append(trace, tasks)
    /\ routed' = IF "wait_for_approval" \in tasks
                 THEN should_regenerate(Merge(values, writes["wait_for_approval"]))
                 ELSE routed
    /\ UNCHANGED <<post_status, caller, bg, entered_from, fnvars, rvars>>

(***************************************************************************)
(* Route handlers and their background tasks                               *)
(***************************************************************************)
PostStatuses ==
    {"draft", "generating", "pending_review", "finalizing", "regenerating", "error"}

generate_post ==
    /\ post_status = "none"
    /\ post_status' = "generating"
    /\ bg' = [task |-> "run_workflow", feedback |-> << >>]
    /\ UNCHANGED <<values, tasks, writes, phase, caller, trace, routed, entered_from, fnvars, rvars>>

run_workflow ==
    /\ bg.task = "run_workflow"
    /\ ainvoke(PostGenerationState(Topic, PostId), "run_workflow")
    /\ bg' = NoBg
    /\ UNCHANGED <<post_status, fnvars, rvars>>

\* PostRepository.update_status called from outside the routes
update_status(status) ==
    /\ post_status # "none"
    /\ post_status' = status
    /\ UNCHANGED <<values, tasks, writes, phase, caller, bg, trace, routed, entered_from, fnvars, rvars>>

\* mutant: the approval is accepted whatever the status of the post
approve_post_unguarded ==
    /\ post_status # "none"
    /\ bg = NoBg
    /\ bg' = [task |-> "resume_with_approval", feedback |-> << >>]
    /\ post_status' = "finalizing"
    /\ UNCHANGED <<values, tasks, writes, phase, caller, trace, routed, entered_from, fnvars, rvars>>

approve_post ==
    /\ post_status = "pending_review"
    /\ bg = NoBg
    /\ bg' = [task |-> "resume_with_approval", feedback |-> << >>]
    /\ post_status' = "finalizing"
    /\ UNCHANGED <<values, tasks, writes, phase, caller, trace, routed, entered_from, fnvars, rvars>>

\* mutant: the resumption also counts itself in the state it writes
resume_with_approval_counting ==
    /\ bg.task = "resume_with_approval"
    /\ IF DOMAIN values # {}
       THEN ainvoke([values EXCEPT !.approval_status = "approved",
                                   !.retry_count = 1 - @],
                    "resume_with_approval")
       ELSE phase # "running" /\ UNCHANGED <<values, tasks, writes, phase, caller, trace, routed, entered_from>>
    /\ bg' = NoBg
    /\ UNCHANGED <<post_status, fnvars, rvars>>

resume_with_approval ==
    /\ bg.task = "resume_with_approval"
    /\ IF DOMAIN values # {}
       THEN ainvoke([values EXCEPT !.approval_status = "approved"],
                    "resume_with_approval")
       ELSE phase # "running" /\ UNCHANGED <<values, tasks, writes, phase, caller, trace, routed, entered_from>>
    /\ bg' = NoBg
    /\ UNCHANGED <<post_status, fnvars, rvars>>

reject_post(feedback) ==
    /\ post_status = "pending_review"
    /\ bg = NoBg
    /\ bg' = [task |-> "resume_with_rejection", feedback |-> feedback]
    /\ post_status' = "regenerating"
    /\ UNCHANGED <<values, tasks, writes, phase, caller, trace, routed, entered_from, fnvars, rvars>>

resume_with_rejection ==
    /\ bg.task = "resume_with_rejection"
    /\ IF DOMAIN values # {}
       THEN ainvoke([values EXCEPT !.approval_status = "rejected",
                                   !.feedback = Some(bg.feedback)],
                    "resume_with_rejection")
       ELSE phase # "running" /\ UNCHANGED <<values, tasks, writes, phase, caller, trace, routed, entered_from>>
    /\ bg' = NoBg
    /\ UNCHANGED <<post_status, fnvars, rvars>>

(***************************************************************************)
(* Specification of the workflow behind the API                            *)
(***************************************************************************)
FnIdle == called = "none" /\ returned = Raise

RouterIdle ==
    /\ model_chain = << >>
    /\ mode = "none"
    /\ request = [temperature |-> None, max_tokens |-> None]
    /\ rphase = "idle"
    /\ model = 0
    /\ attempt = 0
    /\ calls = << >>
    /\ sleeps = << >>
    /\ response = None

WorkflowIdle ==
    /\ post_status = "none"
    /\ values = EmptyUpdate
    /\ tasks = {}
    /\ writes = EmptyUpdate
    /\ phase = "idle"
    /\ caller = "none"
    /\ bg = NoBg
    /\ trace = << >>
    /\ routed = "none"
    /\ entered_from = "idle"

Init == WorkflowIdle /\ FnIdle /\ RouterIdle

Next ==
    \/ generate_post
    \/ run_workflow
    \/ invoke
    \/ \E status \in PostStatuses : update_status(status)
    \/ approve_post
    \/ resume_with_approval
    \/ \E feedback \in ReviewTexts : reject_post(feedback)
    \/ resume_with_rejection
    \/ \E n \in Nodes : ExecuteTask(n)
    \/ EndSuperstep

Spec == Init /\ [][Next]_vars

(***************************************************************************)
(* Specification of one pass of the graph from a checkpoint                *)
(***************************************************************************)
Flags == {"regenerate_linkedin", "regenerate_instagram", "regenerate_wordpress"}

\* states of a thread whose first pass is over: analysis done, posts written or not
Checkpoints ==
    {[PostGenerationState(Topic, PostId) EXCEPT
         !.analysis = Some(1), !.themes = <<1>>,
         !.target_audience = Some(1), !.visual_concepts = <<1>>,
         !.image = i,
         !.linkedin_post = IF had THEN Some([text |-> 1, image |-> i]) ELSE None,
         !.instagram_post = IF had /\ i # None THEN Some([text |-> 1, image |-> i]) ELSE None,
         !.wordpress_post = IF had THEN Some([text |-> 1, image |-> i]) ELSE None,
         !.approval_status = st,
         !.feedback = fb,
         !.regenerate_linkedin = fl["regenerate_linkedin"],
         !.regenerate_instagram = fl["regenerate_instagram"],
         !.regenerate_wordpress = fl["regenerate_wordpress"],
         !.finalized = fin] :
       i \in Opt(Images), had \in BOOLEAN, st \in Statuses,
       fb \in Opt(ReviewTexts), fl \in [Flags -> BOOLEAN], fin \in BOOLEAN}

InitPass ==
    /\ post_status = "none"
    /\ values \in Checkpoints
    /\ \E n \in Nodes : tasks = {n}
    /\ writes = EmptyUpdate
    /\ phase = "running"
    /\ caller = "invoke"
    /\ bg = NoBg
    /\ trace = << >>
    /\ routed = "none"
    /\ entered_from = "idle"
    /\ FnIdle
    /\ RouterIdle

NextPass ==
    \/ \E n \in Nodes : ExecuteTask(n)
    \/ EndSuperstep

PassSpec == InitPass /\ [][NextPass]_vars

(***************************************************************************)
(* Specification of the node functions and the conditional edge called on  *)
(* a state, as the unit tests call them                                    *)
(***************************************************************************)
\* error messages a test puts in the state
ErrorMessages == {"API rate limit exceeded"}

\* states without an error under every feedback text, and states that carry an
\* error under the texts a reviewer sends
NodeInputs ==
    {[PostGenerationState(Topic, PostId) EXCEPT
         !.image = i, !.approval_status = st, !.feedback = fb, !.finalized = fin] :
       i \in Opt(Images), st \in Statuses, fb \in Opt(Texts), fin \in BOOLEAN}
    \cup
    {[PostGenerationState(Topic, PostId) EXCEPT
         !.image = i, !.approval_status = st, !.feedback = fb, !.finalized = fin,
         !.error = Some(e)] :
       i \in Opt(Images), st \in Statuses, fb \in Opt(ReviewTexts), fin \in BOOLEAN,
       e \in ErrorMessages}

InitNode ==
    /\ post_status = "none"
    /\ values \in NodeInputs
    /\ tasks = {}
    /\ writes = EmptyUpdate
    /\ phase = "idle"
    /\ caller = "none"
    /\ bg = NoBg
    /\ trace = << >>
    /\ routed = "none"
    /\ entered_from = "idle"
    /\ FnIdle
    /\ RouterIdle

\* rphase records how the node's call of the router ended
CallNode(n) ==
    /\ called' = n
    /\ IF n \in LLMNodes
       THEN \E result \in LLMResults :
               /\ returned' = NodeCall(n, values, result)
               /\ rphase' = IF result.kind = "raised" THEN "raised" ELSE "returned"
       ELSE /\ returned' \in NodeFn(n, values)
            /\ rphase' = "idle"
    /\ UNCHANGED <<wfvars, model_chain, mode, request, model, attempt, calls, sleeps, response>>

CallEdge ==
    /\ called' = "should_regenerate"
    /\ routed' = should_regenerate(values)
    /\ UNCHANGED <<post_status, values, tasks, writes, phase, caller, bg, trace,
                   entered_from, returned, rvars>>

NextNode ==
    \/ \E n \in Nodes \cup {"handle_error"} : CallNode(n)
    \/ CallEdge

NodeSpec == InitNode /\ [][NextNode]_vars

(***************************************************************************)
(* LLMRouter: one generate() call against a backend that may fail          *)
(***************************************************************************)
Models == {"A", "B", "C"}

Rank(m) == CASE m = "A" -> 1 [] m = "B" -> 2 [] m = "C" -> 3

\* the router treats model names alike, so one chain stands for all its
\* renamings: a name appears only after the names that come before it
FirstUse(chain) ==
    \A i \in 1..Len(chain) : \A r \in 1..(Rank(chain[i]) - 1) :
        \E j \in 1..(i - 1) : Rank(chain[j]) = r

\* [self.primary_model] + self.fallback_models
ModelChains == {chain \in UNION {[1..n -> Models] : n \in 1..MaxChain} : FirstUse(chain)}

max_retries == 3

\* mutant: linear backoff instead of exponential
sleep_time_linear(a) == 2 * a

\* sleep_time = 2**attempt
sleep_time(a) == 2 ^ a

\* self.temperature (in tenths) and self.max_tokens, from the settings
router_temperature == 7
router_max_tokens == 2000

\* values a caller passes for temperature (in tenths) and max_tokens
Temperatures == {0, 9}
MaxTokens == {500}
Requests == [temperature : Opt(Temperatures), max_tokens : Opt(MaxTokens)]

\* Python's `x or default` on an optional number: None and 0 are falsy
Or(x, default) == IF x = None \/ x = Some(0) THEN default ELSE x[1]

\* temp and max_tok of generate() and generate_structured():
\* `temperature if temperature is not None else self.temperature`
temp == IF request.temperature # None THEN request.temperature[1] ELSE router_temperature
max_tok == IF request.max_tokens # None THEN request.max_tokens[1] ELSE router_max_tokens

\* the parameters of the ChatOpenAI client that _create_client() builds
create_client(temperature, max_tokens) ==
    [temperature |-> Or(temperature, router_temperature),
     max_tokens |-> Or(max_tokens, router_max_tokens)]

\* _call_model(model, prompt, system_prompt, temperature, max_tokens) builds
\* its client with self._create_client(model)
call_model_client(temperature, max_tokens) == create_client(None, None)

\* _call_model_structured(...) builds its client with
\* self._create_client(model, temperature, max_tokens)
call_model_structured_client(temperature, max_tokens) ==
    create_client(Some(temperature), Some(max_tokens))

InitRouter ==
    /\ WorkflowIdle
    /\ FnIdle
    /\ model_chain \in ModelChains
    /\ mode = "none"
    /\ request = [temperature |-> None, max_tokens |-> None]
    /\ rphase = "idle"
    /\ model = 0
    /\ attempt = 0
    /\ calls = << >>
    /\ sleeps = << >>
    /\ response = None

\* generate() enters `for model in self.model_chain` and the retry loop of
\* _call_model_with_retry for the first model
generate ==
    /\ rphase = "idle"
    /\ mode' = "text"
    /\ request' \in Requests
    /\ rphase' = "calling"
    /\ model' = 1
    /\ attempt' = 0
    /\ UNCHANGED <<model_chain, calls, sleeps, response, wfvars, fnvars>>

\* mutant: generate() does not return on success but goes on with the next model
call_model_with_retry_no_return(ok, m, a) ==
    IF ok /\ m < Len(model_chain)
    THEN [rphase |-> "calling", model |-> m + 1, attempt |-> 0,
          slept |-> << >>, response |-> Some(m)]
    ELSE IF ok
    THEN [rphase |-> "returned", model |-> m, attempt |-> a,
          slept |-> << >>, response |-> Some(m)]
    ELSE IF a < max_retries - 1
    THEN [rphase |-> "calling", model |-> m, attempt |-> a + 1,
          slept |-> <<sleep_time(a)>>, response |-> None]
    ELSE IF m < Len(model_chain)
    THEN [rphase |-> "calling", model |-> m + 1, attempt |-> 0,
          slept |-> << >>, response |-> None]
    ELSE [rphase |-> "raised", model |-> m, attempt |-> a,
          slept |-> << >>, response |-> None]

\* mutant: off by one in the retry loop, the last attempt is not made
call_model_with_retry_one_less(ok, m, a) ==
    IF ok
    THEN [rphase |-> "returned", model |-> m, attempt |-> a,
          slept |-> << >>, response |-> Some(m)]
    ELSE IF a < max_retries - 2
    THEN [rphase |-> "calling", model |-> m, attempt |-> a + 1,
          slept |-> <<sleep_time(a)>>, response |-> None]
    ELSE IF m < Len(model_chain)
    THEN [rphase |-> "calling", model |-> m + 1, attempt |-> 0,
          slept |-> << >>, response |-> None]
    ELSE [rphase |-> "raised", model |-> m, attempt |-> a,
          slept |-> << >>, response |-> None]

\* mutant: the terminal error is raised without trying the last model of the chain
call_model_with_retry_early_raise(ok, m, a) ==
    IF ok
    THEN [rphase |-> "returned", model |-> m, attempt |-> a,
          slept |-> << >>, response |-> Some(m)]
    ELSE IF a < max_retries - 1
    THEN [rphase |-> "calling", model |-> m, attempt |-> a + 1,
          slept |-> <<sleep_time(a)>>, response |-> None]
    ELSE IF m < Len(model_chain) - 1
    THEN [rphase |-> "calling", model |-> m + 1, attempt |-> 0,
          slept |-> << >>, response |-> None]
    ELSE [rphase |-> "raised", model |-> m, attempt |-> a,
          slept |-> << >>, response |-> None]

\* what the retry loop of _call_model_with_retry and the chain loop of
\* generate() do after the call of model m, attempt a, succeeded or failed
call_model_with_retry(ok, m, a) ==
    IF ok
    THEN \* return self._call_model(...), returned again by generate()
         [rphase |-> "returned", model |-> m, attempt |-> a,
          slept |-> << >>, response |-> Some(m)]
    ELSE IF a < max_retries - 1
    THEN \* time.sleep(sleep_time), next attempt
         [rphase |-> "calling", model |-> m, attempt |-> a + 1,
          slept |-> <<sleep_time(a)>>, response |-> None]
    ELSE IF m < Len(model_chain)
    THEN \* raise, caught by generate(): continue with the next model
         [rphase |-> "calling", model |-> m + 1, attempt |-> 0,
          slept |-> << >>, response |-> None]
    ELSE \* raise Exception("All models in fallback chain failed")
         [rphase |-> "raised", model |-> m, attempt |-> a,
          slept |-> << >>, response |-> None]

\* one _call_model() and what the two loops do with its result; the call is
\* logged with the time.sleep() made after it, before the next call
call_model ==
    /\ mode = "text"
    /\ rphase = "calling"
    /\ \E ok \in BOOLEAN :
          LET after == call_model_with_retry(ok, model, attempt)
          IN  /\ calls' = Append(calls, [model |-> model_chain[model], index |-> model,
                                         attempt |-> attempt, ok |-> ok,
                                         slept |-> after.slept,
                                         client |-> call_model_client(temp, max_tok)])
              /\ rphase' = after.rphase
              /\ model' = after.model
              /\ attempt' = after.attempt
              /\ sleeps' = sleeps \o after.slept
              /\ response' = after.response
    /\ UNCHANGED <<model_chain, mode, request, wfvars, fnvars>>

\* generate_structured() enters `for model in self.model_chain` and the retry
\* loop of _call_model_structured_with_retry for the first model
generate_structured ==
    /\ rphase = "idle"
    /\ mode' = "structured"
    /\ request' = [temperature |-> None, max_tokens |-> None]
    /\ rphase' = "calling"
    /\ model' = 1
    /\ attempt' = 0
    /\ UNCHANGED <<model_chain, calls, sleeps, response, wfvars, fnvars>>

\* structured_client.invoke(messages) returns a validated instance, or raises
\* because the request failed or because the output does not fit the schema
StructuredOutcomes == {"ok", "transport_error", "validation_error"}

\* mutant: output that does not fit the schema is not retried on the same model
call_model_structured_with_retry_no_retry(outcome, m, a) ==
    IF outcome = "ok"
    THEN [rphase |-> "returned", model |-> m, attempt |-> a,
          slept |-> << >>, response |-> Some(m)]
    ELSE IF outcome = "transport_error" /\ a < max_retries - 1
    THEN [rphase |-> "calling", model |-> m, attempt |-> a + 1,
          slept |-> <<sleep_time(a)>>, response |-> None]
    ELSE IF m < Len(model_chain)
    THEN [rphase |-> "calling", model |-> m + 1, attempt |-> 0,
          slept |-> << >>, response |-> None]
    ELSE [rphase |-> "raised", model |-> m, attempt |-> a,
          slept |-> << >>, response |-> None]

\* what the retry loop of _call_model_structured_with_retry and the chain loop
\* of generate_structured() do after the call of model m, attempt a; the
\* `except Exception` clauses catch every exception of the call alike
call_model_structured_with_retry(outcome, m, a) ==
    IF outcome = "ok"
    THEN \* return self._call_model_structured(...), returned by generate_structured()
         [rphase |-> "returned", model |-> m, attempt |-> a,
          slept |-> << >>, response |-> Some(m)]
    ELSE IF a < max_retries - 1
    THEN \* time.sleep(sleep_time), next attempt
         [rphase |-> "calling", model |-> m, attempt |-> a + 1,
          slept |-> <<sleep_time(a)>>, response |-> None]
    ELSE IF m < Len(model_chain)
    THEN \* raise, caught by generate_structured(): continue with the next model
         [rphase |-> "calling", model |-> m + 1, attempt |-> 0,
          slept |-> << >>, response |-> None]
    ELSE \* raise Exception("All models in fallback chain failed for structured output")
         [rphase |-> "raised", model |-> m, attempt |-> a,
          slept |-> << >>, response |-> None]

\* one _call_model_structured() and what the two loops do with its result
call_model_structured ==
    /\ mode = "structured"
    /\ rphase = "calling"
    /\ \E outcome \in StructuredOutcomes :
          LET after == call_model_structured_with_retry(outcome, model, attempt)
          IN  /\ calls' = Append(calls, [model |-> model_chain[model], index |-> model,
                                         attempt |-> attempt, ok |-> outcome = "ok",
                                         slept |-> after.slept, outcome |-> outcome,
                                         client |-> call_model_structured_client(temp, max_tok)])
              /\ rphase' = after.rphase
              /\ model' = after.model
              /\ attempt' = after.attempt
              /\ sleeps' = sleeps \o after.slept
              /\ response' = after.response
    /\ UNCHANGED <<model_chain, mode, request, wfvars, fnvars>>

NextRouter ==
    \/ generate
    \/ call_model
    \/ generate_structured
    \/ call_model_structured

RouterSpec == InitRouter /\ [][NextRouter]_vars

(***************************************************************************)
(* Properties                                                              *)
(***************************************************************************)
\* nodes run so far by the invocation in progress
Executed == UNION {trace[i] : i \in 1..Len(trace)} \cup DOMAIN writes

\* the invocation in progress has stopped without an exception
Stopped == phase \in {"interrupted", "done"}

\* C1: a run suspended before wait_for_approval and resumed by an approval
\* runs no node other than wait_for_approval and finalize, and when the resumed
\* invocation stops the state is finalized.
C1_ApproveRoundTrip ==
    (caller = "resume_with_approval" /\ entered_from = "interrupted")
        => /\ Executed \subseteq {"wait_for_approval", "finalize"}
           /\ Stopped => values.finalized

\* C2: a run suspended before wait_for_approval and resumed by a rejection with
\* feedback f has f in its state, runs wait_for_approval, then apply_feedback,
\* then the platform generators, and is then suspended again.
C2_RejectRoundTrip ==
    (caller = "resume_with_rejection" /\ entered_from = "interrupted")
        => /\ values.approval_status # "pending_generation"
           /\ values.feedback \in {Some(t) : t \in ReviewTexts}
           /\ Executed \subseteq {"wait_for_approval", "apply_feedback"} \cup Generators
           /\ Stopped => /\ phase = "interrupted"
                         /\ trace = <<{"wait_for_approval"}, {"apply_feedback"}, Generators>>

\* C3: should_regenerate returns "finalize" exactly for approved, "regenerate"
\* exactly for rejected and "wait" for every other status, known or not.
C3_ConditionalRouter ==
    called = "should_regenerate"
        => /\ routed \in {"finalize", "regenerate", "wait"}
           /\ routed = "finalize" <=> values.approval_status = "approved"
           /\ routed = "regenerate" <=> values.approval_status = "rejected"
           /\ routed = "wait" <=> values.approval_status \notin {"approved", "rejected"}

C3_Witness ==
    /\ called = "should_regenerate"
    /\ values.approval_status = "archived"
    /\ routed = "wait"

FlagOf(g) ==
    CASE g = "generate_linkedin" -> "regenerate_linkedin"
      [] g = "generate_instagram" -> "regenerate_instagram"
      [] g = "generate_wordpress" -> "regenerate_wordpress"

\* C4: in the superstep that follows apply_feedback, a platform generator runs
\* only if its regenerate flag is true.
C4_SelectiveRegeneration ==
    (trace # << >> /\ trace[Len(trace)] = {"apply_feedback"})
        => \A g \in Generators \cap DOMAIN writes : values[FlagOf(g)]

\* the platform name occurs in the text, whatever the case of the letters
Occurs(name, text) ==
    LET str == Spell(text)
    IN  \E i \in 1..Len(str) :
           /\ i + Len(name) - 1 <= Len(str)
           /\ \A j \in 1..Len(name) : LowerChar(str[i + j - 1]) = name[j]

FeedbackText == IF values.feedback = None THEN << >> ELSE values.feedback[1]

Named(platform) == Occurs(Chars(platform), FeedbackText)

\* C5: when the feedback names at least one platform, each regenerate flag of
\* apply_feedback's update is true exactly if the feedback names that platform.
C5_PlatformTargeting ==
    (called = "apply_feedback"
       /\ (Named("linkedin") \/ Named("instagram") \/ Named("wordpress")))
        => /\ returned.update.regenerate_linkedin <=> Named("linkedin")
           /\ returned.update.regenerate_instagram <=> Named("instagram")
           /\ returned.update.regenerate_wordpress <=> Named("wordpress")

C5_Witness ==
    /\ called = "apply_feedback"
    /\ values.feedback = Some(<<"linked", "in">>)
    /\ returned.update.regenerate_linkedin
    /\ ~returned.update.regenerate_instagram
    /\ ~returned.update.regenerate_wordpress

\* C6: when the feedback names no platform (also when it is empty or absent),
\* all three regenerate flags of the update are true; in every case at least
\* one of them is true.
C6_FallbackToAll ==
    called = "apply_feedback"
        => /\ (~Named("linkedin") /\ ~Named("instagram") /\ ~Named("wordpress"))
                 => \A k \in Flags : returned.update[k]
           /\ \E k \in Flags : returned.update[k]

C6_Witness ==
    /\ called = "apply_feedback"
    /\ values.feedback = None
    /\ \A k \in Flags : returned.update[k]

\* C7: apply_feedback returns without an exception an update of exactly the three
\* regenerate flags and approval_status = "regenerating": topic, analysis and
\* image are not in it.
C7_ApplyFeedbackFrame ==
    called = "apply_feedback"
        => /\ returned.ok
           /\ DOMAIN returned.update = Flags \cup {"approval_status"}
           /\ returned.update.approval_status = "regenerating"
           /\ Merge(values, returned.update).topic = values.topic
           /\ Merge(values, returned.update).analysis = values.analysis
           /\ Merge(values, returned.update).image = values.image

C7_Witness ==
    /\ called = "apply_feedback"
    /\ values.approval_status = "approved"
    /\ values.image # None
    /\ returned.update.approval_status = "regenerating"

\* the calls made to the model at index m of the chain
CallsOf(m) == {k \in 1..Len(calls) : calls[k].index = m}

\* C8: the models are called in chain order starting with the primary one, a
\* model is called only after all three attempts of every earlier model failed,
\* and a call that succeeds is the last one: its response is returned.
C8_ChainOrder ==
    /\ \A k \in 1..Len(calls) :
          /\ calls[k].model = model_chain[calls[k].index]
          /\ k = 1 => calls[k].index = 1
          /\ k > 1 => calls[k].index \in {calls[k - 1].index, calls[k - 1].index + 1}
          /\ \A m \in 1..(calls[k].index - 1) :
                /\ CallsOf(m) # {}
                /\ \A j \in CallsOf(m) : j < k /\ ~calls[j].ok
          /\ calls[k].ok => /\ k = Len(calls)
                            /\ rphase = "returned"
                            /\ response = Some(calls[k].index)
    /\ rphase = "returned" => calls # << >> /\ calls[Len(calls)].ok

C8_Witness ==
    /\ Len(model_chain) = 3
    /\ rphase = "returned"
    /\ response = Some(2)
    /\ CallsOf(1) # {}
    /\ CallsOf(3) = {}

\* C9: a model that the router has left behind was attempted exactly 3 times,
\* no model is attempted more than 3 times, and when the response of the model
\* at index m is returned every model before m was attempted exactly 3 times.
C9_RetryCount ==
    /\ \A m \in 1..Len(model_chain) :
          /\ Cardinality(CallsOf(m)) <= 3
          /\ (rphase = "calling" /\ m < model) => Cardinality(CallsOf(m)) = 3
          /\ (rphase = "calling" /\ m = model) => Cardinality(CallsOf(m)) = attempt
          /\ (rphase = "returned" /\ m < response[1]) => Cardinality(CallsOf(m)) = 3
    /\ \A k \in 1..Len(calls) : calls[k].attempt = Cardinality({j \in CallsOf(calls[k].index) : j < k})

C9_Witness ==
    /\ model_chain = <<"A", "B", "C">>
    /\ rphase = "returned"
    /\ response = Some(3)
    /\ Len(calls) = 7
    /\ Cardinality(CallsOf(1)) = 3
    /\ Cardinality(CallsOf(2)) = 3

\* C10: the terminal error is raised only when every model of the chain has
\* failed all its attempts, after exactly len(chain) * 3 calls.
C10_Exhaustion ==
    rphase = "raised"
        => /\ Len(calls) = Len(model_chain) * 3
           /\ \A k \in 1..Len(calls) : ~calls[k].ok
           /\ \A m \in 1..Len(model_chain) : Cardinality(CallsOf(m)) = 3
           /\ response = None

C10_Witness ==
    /\ rphase = "raised"
    /\ Len(model_chain) = 3
    /\ Len(calls) = 9

\* the sleeps made after the calls cs, in order
RECURSIVE SleptIn(_)
SleptIn(cs) == IF cs = << >> THEN << >> ELSE cs[1].slept \o SleptIn(Tail(cs))

\* the sleeps made between the attempts of the model at index m
SleepsOf(m) == SleptIn(SelectSeq(calls, LAMBDA c : c.index = m))

\* C11: the sleep after failed attempt a (counted from 0) of a model is 2^a:
\* 1 after the first failure, 2 after the second, none after the third; a
\* model that failed all three attempts slept exactly 1 then 2, a model that
\* succeeded on attempt k slept only for its k failures before, and nothing is
\* slept between the last attempt of a model and the first of the next one.
C11_Backoff ==
    /\ sleeps = SleptIn(calls)
    /\ \A k \in 1..Len(calls) :
          /\ calls[k].slept = IF calls[k].ok THEN << >>
                              ELSE IF calls[k].attempt = 0 THEN <<1>>
                              ELSE IF calls[k].attempt = 1 THEN <<2>>
                              ELSE << >>
          /\ calls[k].ok => SleepsOf(calls[k].index) = SubSeq(<<1, 2>>, 1, calls[k].attempt)
          /\ (k < Len(calls) /\ calls[k + 1].index # calls[k].index) => calls[k].slept = << >>
    /\ \A m \in 1..Len(model_chain) :
          (Cardinality(CallsOf(m)) = 3 /\ \A j \in CallsOf(m) : ~calls[j].ok)
              => SleepsOf(m) = <<1, 2>>

C11_Witness ==
    /\ Len(model_chain) = 2
    /\ rphase = "returned"
    /\ response = Some(2)
    /\ Len(calls) = 5
    /\ sleeps = <<1, 2, 1>>

\* the success/failure pattern of the calls made so far
Pattern == [k \in 1..Len(calls) |-> calls[k].ok]

\* what generate() does under the success/failure pattern oks: where its
\* loops stand after the calls, the attempts it made and the sleeps between them
RECURSIVE TextRun(_)
TextRun(oks) ==
    IF oks = << >>
    THEN [rphase |-> "calling", model |-> 1, attempt |-> 0,
          attempts |-> << >>, sleeps |-> << >>, response |-> None]
    ELSE LET before == TextRun(SubSeq(oks, 1, Len(oks) - 1))
             after == call_model_with_retry(oks[Len(oks)], before.model, before.attempt)
         IN  [rphase |-> after.rphase, model |-> after.model, attempt |-> after.attempt,
              attempts |-> Append(before.attempts, <<before.model, before.attempt>>),
              sleeps |-> before.sleeps \o after.slept, response |-> after.response]

\* C12: generate_structured makes the same attempts on the same models, the
\* same sleeps and the same fallbacks, and ends the same way (response of the
\* same model, or the terminal error) as generate does under the same
\* success/failure pattern, whether a failure is a failed request or output
\* that does not fit the schema.
C12_StructuredAsText ==
    (mode = "structured" /\ rphase # "idle")
        => LET run == TextRun(Pattern)
           IN  /\ [k \in 1..Len(calls) |-> <<calls[k].index, calls[k].attempt>>] = run.attempts
               /\ sleeps = run.sleeps
               /\ rphase = run.rphase
               /\ model = run.model
               /\ attempt = run.attempt
               /\ response = run.response

C12_Witness ==
    /\ mode = "structured"
    /\ Len(model_chain) = 2
    /\ rphase = "returned"
    /\ response = Some(2)
    /\ Len(calls) = 5
    /\ calls[1].outcome = "validation_error"
    /\ calls[2].outcome = "transport_error"
    /\ calls[3].outcome = "validation_error"
    /\ sleeps = <<1, 2, 1>>

\* C13: whenever a node function has raised during a run, the state of the run
\* has approval_status = "error", the error message in `error` and
\* finalized = false.
C13_FailureState ==
    phase = "failed"
        => /\ values.approval_status = "error"
           /\ values.error # None
           /\ values.finalized = FALSE

\* the functions that invoke the graph
Callers == {"invoke", "run_workflow", "resume_with_approval", "resume_with_rejection"}

\* C14: after a node function has raised, no node of that run executes any
\* more (neither the nodes that depend on the one that raised nor any other,
\* no retry, no resumption) and the state of the run stays as it is, until a
\* caller invokes the graph again: a direct invocation, or the background task
\* that a route handler has queued.
C14_FailureTerminal ==
    [][phase = "failed"
          => \/ /\ phase' = "failed"
                /\ UNCHANGED <<values, tasks, writes, trace, routed>>
             \/ /\ phase' = "running"
                /\ caller' \in Callers
                /\ caller' = "invoke" \/ bg.task = caller'
                /\ tasks' = {EntryPoint}
                /\ writes' = EmptyUpdate
                /\ trace' = << >>]_vars

C14_Witness ==
    /\ phase = "failed"
    /\ caller = "run_workflow"
    /\ post_status = "error"
    /\ tasks = Generators
    /\ Executed = {"analyze_topic", "generate_image"}
    /\ values.linkedin_post = None

\* the background tasks that resume a suspended run
Resumes == {"resume_with_approval", "resume_with_rejection"}

\* C15: a run is suspended only immediately before wait_for_approval; when it
\* is suspended the updates of all nodes before wait_for_approval are in the
\* checkpoint and wait_for_approval has not run in that pass; and a resumption
\* of a suspended run starts at wait_for_approval.
C15_SuspendPoint ==
    /\ phase = "interrupted"
          => /\ tasks = {"wait_for_approval"}
             /\ writes = EmptyUpdate
             /\ Generators \subseteq Executed
             /\ values.linkedin_post # None
             /\ values.instagram_post # None
             /\ values.wordpress_post # None
             /\ "wait_for_approval" \notin Executed
    /\ (caller \in Resumes /\ entered_from = "interrupted"
            /\ phase = "running" /\ trace = << >>)
          => tasks = {"wait_for_approval"}

C17_FeedbackScope ==
    DOMAIN values # {}
        => /\ values.feedback # None
                 => \/ values.approval_status = "rejected"
                    \/ (phase = "running" /\ "apply_feedback" \in tasks)
           /\ phase = "interrupted" => values.feedback = None

\* the posts that the generators have written into the state
Posts ==
    {values[f][1] : f \in {g \in {"linkedin_post", "instagram_post", "wordpress_post"} :
                              values[g] # None}}

\* C18: generate_image sets the image, so that when the platform generators
\* run the image is there (generate_instagram never runs without an image)
\* and the posts of the three generators carry that one image.
C18_SharedImage ==
    DOMAIN values # {}
        => /\ "generate_image" \in Executed \ DOMAIN writes => values.image # None
           /\ (phase = "running" /\ tasks = Generators) => values.image # None
           /\ \A post \in Posts : post.image = values.image

\* C19: in the state a run starts with, before apply_feedback has run, the
\* three regenerate flags are true.
C19_InitialFlags ==
    (caller \in {"run_workflow", "invoke"} /\ phase = "running" /\ trace = << >>)
        => /\ values.regenerate_linkedin
           /\ values.regenerate_instagram
           /\ values.regenerate_wordpress

\* C20: when a resumption has raised before any superstep was completed, the
\* same resumption made again (the approval, or the rejection with the same
\* feedback) starts the run from exactly the state and the nodes that the
\* first one started it from, so that the two resumptions together have the
\* effects of one.
C20_ResumeIdempotent ==
    [][(/\ phase = "failed"
        /\ trace = << >>
        /\ caller \in Resumes
        /\ phase' = "running"
        /\ caller' = caller
        /\ caller = "resume_with_rejection" => values.feedback = Some(bg.feedback))
          => /\ values' = values
             /\ tasks' = tasks
             /\ writes' = writes
             /\ trace' = trace
             /\ routed' = routed]_vars

C20_Witness ==
    /\ phase = "failed"
    /\ trace = << >>
    /\ caller = "resume_with_rejection"
    /\ bg.task = "resume_with_rejection"
    /\ values.approval_status = "rejected"
    /\ values.feedback = Some(bg.feedback)
    /\ values.instagram_post # None

\* C21: when the model router raises, after exhausting its chain, inside
\* analyze_topic or a platform generator, the node raises too (the error is
\* not swallowed) and gives no update, so that every field of the state keeps
\* the value it had.
C21_ExhaustionFailsStage ==
    (called \in LLMNodes /\ rphase = "raised")
        => /\ ~returned.ok
           /\ returned.update = EmptyUpdate
           /\ Merge(values, returned.update) = values

C21_Witness ==
    /\ called = "generate_linkedin"
    /\ rphase = "raised"
    /\ returned = Raise
    /\ values.image # None

\* C22: in a pass of the graph, the initial one (after generate_image) and a
\* regeneration (after apply_feedback) alike, the three platform generators
\* run in one superstep, and wait_for_approval is scheduled, once, only when
\* all three have completed; the conditional router has not been evaluated
\* before that.
C22_FanInBarrier ==
    \A j \in 1..Len(trace) :
        trace[j] \in {{"generate_image"}, {"apply_feedback"}}
            => IF j = Len(trace)
               THEN /\ tasks = Generators
                    /\ phase \in {"running", "failed"}
                    /\ routed = "none"
               ELSE /\ trace[j + 1] = Generators
                    /\ j + 1 = Len(trace)
                    /\ tasks = {"wait_for_approval"}
                    /\ phase = "interrupted"
                    /\ routed = "none"

C22_Witness ==
    /\ trace = <<{"apply_feedback"}, Generators>>
    /\ tasks = {"wait_for_approval"}
    /\ phase = "interrupted"
    /\ values.linkedin_post # None
    /\ values.instagram_post # None
    /\ values.wordpress_post # None

\* the field a platform generator writes its post to
PostOf(g) ==
    CASE g = "generate_linkedin" -> "linkedin_post"
      [] g = "generate_instagram" -> "instagram_post"
      [] g = "generate_wordpress" -> "wordpress_post"

\* the orders in which the updates of the nodes S can be merged
Orders(S) == {o \in [1..Cardinality(S) -> S] : \A n \in S : \E i \in DOMAIN o : o[i] = n}

\* the updates of the superstep merged into the state in the order o
RECURSIVE MergeInOrder(_, _)
MergeInOrder(state, o) ==
    IF o = << >> THEN state
    ELSE MergeInOrder(Merge(state, writes[Head(o)]), Tail(o))

\* C23: the update of a platform generator contains its own post field and
\* nothing else, so in whatever order the generators complete and their
\* updates are merged the state after the fan-in is the same, and it holds
\* the post of each generator as that generator returned it.
C23_DisjointWrites ==
    (phase = "running" /\ tasks = Generators)
        => /\ \A g \in DOMAIN writes : DOMAIN writes[g] = {PostOf(g)}
           /\ \A o \in Orders(DOMAIN writes) :
                 MergeInOrder(values, o) = ApplyWrites(values, writes)
           /\ \A g \in DOMAIN writes :
                 ApplyWrites(values, writes)[PostOf(g)] = writes[g][PostOf(g)]

C23_Witness ==
    /\ phase = "running"
    /\ tasks = Generators
    /\ DOMAIN writes = Generators
    /\ trace = <<{"apply_feedback"}>>
    /\ values.linkedin_post # None
    /\ values.linkedin_post # writes["generate_linkedin"].linkedin_post

\* C24: a run executes analyze_topic first and generate_image once, after it
\* and before any platform generator; a regeneration, i.e. the run that a
\* rejection resumes from the suspend point, executes neither analyze_topic
\* nor generate_image, so that analysis and image stay as the first pass made
\* them.
C24_PipelineOrder ==
    /\ caller \in {"run_workflow", "invoke"}
          => \A i \in 1..Len(trace) :
                /\ "analyze_topic" \in trace[i] <=> i = 1
                /\ "generate_image" \in trace[i] <=> i = 2
                /\ trace[i] \cap Generators # {} => i = 3
    /\ (caller = "resume_with_rejection" /\ entered_from = "interrupted")
          => /\ "analyze_topic" \notin Executed
             /\ "generate_image" \notin Executed

\* C25: the update of wait_for_approval contains approval_status only (not
\* post_id, not topic), the update of finalize contains approval_status and
\* finalized only, and so does the update of handle_error; the merge leaves
\* every field that is not in the update as it was, among them the error
\* message of the state.
C25_PartialUpdates ==
    (called \in {"wait_for_approval", "finalize", "handle_error"} /\ returned.ok)
        => /\ called = "wait_for_approval" => DOMAIN returned.update = {"approval_status"}
           /\ called = "finalize" => DOMAIN returned.update = {"approval_status", "finalized"}
           /\ called = "handle_error" => DOMAIN returned.update = {"approval_status", "finalized"}
           /\ LET merged == Merge(values, returned.update)
              IN  /\ \A f \in DOMAIN values \ DOMAIN returned.update : merged[f] = values[f]
                  /\ \A f \in DOMAIN returned.update : merged[f] = returned.update[f]
                  /\ merged.error = values.error
                  /\ merged.post_id = values.post_id
                  /\ merged.topic = values.topic

C25_Witness ==
    /\ called = "handle_error"
    /\ values.error = Some("API rate limit exceeded")
    /\ values.finalized
    /\ returned = Return([approval_status |-> "error", finalized |-> FALSE])

\* C26: when the conditional router has returned "wait" the run is suspended
\* again before wait_for_approval: neither finalize nor apply_feedback nor a
\* generator has run, and wait_for_approval, which ran once, does not run
\* again in this invocation.
C26_WaitBranch ==
    routed = "wait"
        => /\ phase = "interrupted"
           /\ tasks = {"wait_for_approval"}
           /\ writes = EmptyUpdate
           /\ trace = <<{"wait_for_approval"}>>
           /\ Executed \cap ({"finalize", "apply_feedback"} \cup Generators) = {}

C26_Witness ==
    /\ routed = "wait"
    /\ phase = "interrupted"
    /\ tasks = {"wait_for_approval"}
    /\ values.approval_status = "pending_review"
    /\ values.feedback # None

\* C27: every backend call of a generate() request, on every attempt and
\* every model, is made with the temperature and the max_tokens that were
\* passed to generate(), and with the router's defaults for those that were
\* omitted.
C27_PerCallOverrides ==
    mode = "text"
        => \A k \in 1..Len(calls) :
              /\ calls[k].client.temperature =
                    IF request.temperature # None THEN request.temperature[1]
                    ELSE router_temperature
              /\ calls[k].client.max_tokens =
                    IF request.max_tokens # None THEN request.max_tokens[1]
                    ELSE router_max_tokens

\* C28: an approval or a rejection is accepted, i.e. its resumption is queued
\* and the post becomes "finalizing" or "regenerating", only when the status of
\* the post is "pending_review"; with any other status, among them the
\* "finalizing" and "regenerating" that an accepted request leaves, no
\* resumption is queued, and the graph is resumed only by a queued resumption.
C28_ReviewGuard ==
    [][/\ (bg' # bg /\ bg'.task \in Resumes)
             => /\ post_status = "pending_review"
                /\ post_status' = IF bg'.task = "resume_with_approval"
                                  THEN "finalizing" ELSE "regenerating"
       /\ post_status # "pending_review"
             => (bg'.task \in Resumes => bg' = bg)
       /\ (caller' \in Resumes /\ phase # "running" /\ phase' = "running")
             => bg.task = caller']_vars

C28_Witness ==
    /\ post_status = "regenerating"
    /\ bg.task = "resume_with_rejection"
    /\ phase = "interrupted"

\* C29: when the run that the background task of generate_post, or of an
\* accepted rejection, has started is suspended before wait_for_approval and
\* the task is over, the status of the post is "pending_review", so that an
\* approval or a rejection of the post can be accepted.
C29_ReviewReachable ==
    (phase = "interrupted" /\ bg = NoBg
        /\ caller \in {"run_workflow", "resume_with_rejection"})
        => post_status = "pending_review"

\* C30: finalize is triggered only by wait_for_approval's conditional edge on
\* a state whose approval_status is "approved"; and once finalize has run the
\* run is over: its superstep is the last one, no node is scheduled, and the
\* state stays finalized and approved.
C30_FinalizeTerminal ==
    /\ \A n \in Nodes :
          "finalize" \in Successors(n, values)
              => /\ n = "wait_for_approval"
                 /\ values.approval_status = "approved"
                 /\ should_regenerate(values) = "finalize"
    /\ \A i \in 1..Len(trace) :
          "finalize" \in trace[i]
              => /\ i = Len(trace)
                 /\ trace[i] = {"finalize"}
                 /\ phase = "done"
                 /\ tasks = {}
                 /\ writes = EmptyUpdate
                 /\ values.finalized
                 /\ values.approval_status = "approved"

C30_Witness ==
    /\ trace = <<{"finalize"}>>
    /\ phase = "done"
    /\ tasks = {}
    /\ values.finalized
    /\ values.linkedin_post # None
    /\ values.feedback # None

====
